---- MODULE Spec2Model ----
(***************************************************************************)
(* PetHub calendar core: yearly event series, reminder settings, series    *)
(* edit and delete, and the yearly rollover job                            *)
(* (calendarapp/views.py).  Events and reminder settings are database      *)
(* rows; every view is one action that runs the whole handler.             *)
(***************************************************************************)
EXTENDS Integers, Sequences, FiniteSets, TLC

VARIABLES
    events,      \* rows of Event
    reminders,   \* rows of ReminderSettings (one-to-one with an Event)
    nextId,      \* next primary key of Event
    now,         \* timezone.now().year
    steps,       \* number of requests served so far
    last,        \* the request served by the last step and its outcome
    pc,          \* concurrent edits: position of each request
    loaded,      \* concurrent edits: the Event instance each request fetched
    ev0,         \* concurrent edits: the rows before the two requests started
    pets         \* rows of Pet with their owners

vars == <<events, reminders, nextId, now, steps, last, pc, loaded, ev0, pets>>

(* ------------------------------ bounds -------------------------------- *)
MaxSteps == 3
MaxId == 7
MaxNow == 2026

FirstNow == 2025

(* ------------------------------ dates --------------------------------- *)
\* None for an object reference or an optional value
None == 0
\* a date is <<year, month, day>>; ValueError marks a raised ValueError
ValueError == <<0, 0, 0>>
NoDate == <<0, 0, 1>>

IsLeap(y) == (y % 4 = 0) /\ ((y % 100 # 0) \/ (y % 400 = 0))

DaysIn(y, m) ==
    IF m = 2 THEN (IF IsLeap(y) THEN 29 ELSE 28)
    ELSE IF m \in {4, 6, 9, 11} THEN 30 ELSE 31

\* datetime.date(year, month, day)
PyDate(y, m, d) ==
    IF y \in 1..9999 /\ m \in 1..12 /\ d >= 1 /\ d <= DaysIn(y, m)
    THEN <<y, m, d>> ELSE ValueError

\* get_safe_date that lets every ValueError through
get_safe_date_unguarded(year, month, day) == PyDate(year, month, day)

\* EventService.get_safe_date
get_safe_date(year, month, day) ==
    IF PyDate(year, month, day) # ValueError THEN PyDate(year, month, day)
    ELSE IF month = 2 /\ day = 29 THEN PyDate(year, 2, 28)
    ELSE ValueError

(* --------------------------- EventService ----------------------------- *)
\* check_duplicate that never finds a row
check_duplicate_never(evs, pet, title, event_date, exclude_id) == FALSE

\* check_duplicate that finds nothing once an id is excluded
check_duplicate_blind_on_edit(evs, pet, title, event_date, exclude_id) ==
    /\ exclude_id = None
    /\ \E e \in evs : e.pet = pet /\ e.title = title /\ e.date = event_date

\* check_duplicate that looks at the rows of every pet
check_duplicate_any_pet(evs, pet, title, event_date, exclude_id) ==
    \E e \in evs :
        /\ e.title = title /\ e.date = event_date
        /\ (exclude_id # None => e.id # exclude_id)

\* EventService.check_duplicate; exclude_id = None excludes nothing
check_duplicate(evs, pet, title, event_date, exclude_id) ==
    \E e \in evs :
        /\ e.pet = pet /\ e.title = title /\ e.date = event_date
        /\ (exclude_id # None => e.id # exclude_id)

\* calculate_yearly_start_year that keeps the year of the form
start_year_of_form(event_date, current_year) ==
    [start_year |-> event_date[1], warning |-> FALSE]

\* EventService.calculate_yearly_start_year
calculate_yearly_start_year(event_date, current_year) ==
    IF event_date[1] >= current_year - 1
    THEN [start_year |-> event_date[1], warning |-> FALSE]
    ELSE [start_year |-> current_year - 1, warning |-> TRUE]

\* Event(...) as built by the views
NewEvent(id, pet, title, event_type, d, note, is_yearly, original_event) ==
    [id |-> id, pet |-> pet, title |-> title, event_type |-> event_type,
     date |-> d, note |-> note, is_yearly |-> is_yearly, is_done |-> FALSE,
     done_year |-> None, original_event |-> original_event]

\* the instance built on the date of the form instead of the date of its year
yearly_event_on_form_date(pet, form_data, series_date, original_event) ==
    NewEvent(None, pet, form_data.title, form_data.event_type, form_data.date,
             form_data.note, TRUE, original_event)

\* the instance built without its link to the head
yearly_event_unlinked(pet, form_data, series_date, original_event) ==
    NewEvent(None, pet, form_data.title, form_data.event_type, series_date,
             form_data.note, TRUE, None)

\* the Event instance create_yearly_series builds for one year
yearly_event(pet, form_data, series_date, original_event) ==
    NewEvent(None, pet, form_data.title, form_data.event_type, series_date,
             form_data.note, TRUE, original_event)

\* the years loop of EventService.create_yearly_series: the head is saved at
\* once, the continuations are kept in created_events until bulk_create
RECURSIVE create_yearly_loop(_, _, _, _, _, _, _)
create_yearly_loop(evs, nid, pet, form_data, years, original_event, created_events) ==
    IF years = <<>>
    THEN [events |-> evs, nextId |-> nid, original_event |-> original_event,
          created_events |-> created_events, failed |-> FALSE]
    ELSE
      LET year == Head(years)
          series_date == get_safe_date(year, form_data.date[2], form_data.date[3])
      IN  IF series_date = ValueError
          THEN [events |-> evs, nextId |-> nid, original_event |-> original_event,
                created_events |-> created_events, failed |-> TRUE]
          ELSE IF check_duplicate(evs, pet, form_data.title, series_date, None)
          THEN create_yearly_loop(evs, nid, pet, form_data, Tail(years),
                                  original_event, created_events)
          ELSE
            LET event == yearly_event(pet, form_data, series_date, original_event)
            IN  IF original_event = None
                THEN create_yearly_loop(evs \cup {[event EXCEPT !.id = nid]}, nid + 1,
                                        pet, form_data, Tail(years), nid, created_events)
                ELSE create_yearly_loop(evs, nid, pet, form_data, Tail(years),
                                        original_event, Append(created_events, event))

\* Event.objects.bulk_create(objs): the rows get consecutive primary keys
bulk_create(evs, nid, objs) ==
    [events |-> evs \cup {[objs[i] EXCEPT !.id = nid + i - 1] : i \in 1..Len(objs)},
     nextId |-> nid + Len(objs),
     ids |-> [i \in 1..Len(objs) |-> nid + i - 1]]

\* EventService.create_yearly_series; created_events holds the new primary keys
create_yearly_series(evs, nid, pet, form_data, years) ==
    LET r == create_yearly_loop(evs, nid, pet, form_data, years, None, <<>>)
        b == bulk_create(r.events, r.nextId, r.created_events)
    IN  IF r.failed
        THEN [events |-> r.events, nextId |-> r.nextId, original_event |-> r.original_event,
              created_events |-> <<>>, failed |-> TRUE]
        ELSE [events |-> b.events, nextId |-> b.nextId, original_event |-> r.original_event,
              created_events |-> b.ids, failed |-> FALSE]

\* EventService.create_single_event
create_single_event(evs, nid, pet, form_data) ==
    [events |-> evs \cup {NewEvent(nid, pet, form_data.title, form_data.event_type,
                                   form_data.date, form_data.note, FALSE, None)},
     nextId |-> nid + 1, id |-> nid]

\* the row with primary key id
Row(evs, id) == CHOOSE e \in evs : e.id = id

\* a queryset without order_by, read in primary-key order
RECURSIVE ById(_)
ById(S) ==
    IF S = {} THEN <<>>
    ELSE LET m == CHOOSE e \in S : \A f \in S : e.id <= f.id
         IN  <<m>> \o ById(S \ {m})

\* main_event.recurring_events.all()
recurring_events(evs, id) == {e \in evs : e.original_event = id}

\* get_series_events that takes the given row for the head
get_series_events_of_row(evs, event) ==
    <<event>> \o ById(recurring_events(evs, event.id))

\* EventService.get_series_events; event is the instance held by the view
get_series_events(evs, event) ==
    LET main_event == IF event.original_event # None
                      THEN Row(evs, event.original_event) ELSE event
    IN  <<main_event>> \o ById(recurring_events(evs, main_event.id))

\* the new date taken whole from the form, year included
new_date_of_form(ev, form_data, update_date) ==
    PyDate(form_data.date[1], form_data.date[2], form_data.date[3])

\* new_date of EventService.update_events for the instance ev
new_date_of(ev, form_data, update_date) ==
    IF update_date
    THEN PyDate(ev.date[1], form_data.date[2], form_data.date[3])
    ELSE ev.date

\* the loop of EventService.update_events over the instances in evlist
RECURSIVE update_loop(_, _, _, _, _, _)
update_loop(evs, evlist, form_data, update_date, used_pairs, updated) ==
    IF evlist = <<>> THEN [updated |-> updated, failed |-> FALSE]
    ELSE
      LET ev == Head(evlist)
          new_date == new_date_of(ev, form_data, update_date)
          pair == <<form_data.title, new_date>>
      IN  IF new_date = ValueError THEN [updated |-> updated, failed |-> TRUE]
          ELSE IF pair \in used_pairs
          THEN update_loop(evs, Tail(evlist), form_data, update_date, used_pairs, updated)
          ELSE IF check_duplicate(evs, ev.pet, form_data.title, new_date, ev.id)
          THEN update_loop(evs, Tail(evlist), form_data, update_date, used_pairs, updated)
          ELSE update_loop(evs, Tail(evlist), form_data, update_date,
                           used_pairs \cup {pair},
                           Append(updated,
                                  [ev EXCEPT !.title = form_data.title,
                                             !.event_type = form_data.event_type,
                                             !.date = new_date,
                                             !.note = form_data.note,
                                             !.is_yearly = form_data.is_yearly]))

\* bulk_update with the title left out of its list of fields
bulk_update_without_title(evs, objs) ==
    {IF \E i \in 1..Len(objs) : objs[i].id = e.id
     THEN LET o == objs[CHOOSE i \in 1..Len(objs) : objs[i].id = e.id]
          IN  [e EXCEPT !.event_type = o.event_type,
                        !.date = o.date, !.note = o.note, !.is_yearly = o.is_yearly]
     ELSE e : e \in evs}

\* Event.objects.bulk_update(objs, fields): the listed columns of the rows that
\* still exist are overwritten from the instances
bulk_update(evs, objs) ==
    {IF \E i \in 1..Len(objs) : objs[i].id = e.id
     THEN LET o == objs[CHOOSE i \in 1..Len(objs) : objs[i].id = e.id]
          IN  [e EXCEPT !.title = o.title, !.event_type = o.event_type,
                        !.date = o.date, !.note = o.note, !.is_yearly = o.is_yearly]
     ELSE e : e \in evs}

\* EventService.update_events
update_events(evs, evlist, form_data, update_date) ==
    LET r == update_loop(evs, evlist, form_data, update_date, {}, <<>>)
    IN  IF r.failed THEN [events |-> evs, updated |-> <<>>, failed |-> TRUE]
        ELSE [events |-> bulk_update(evs, r.updated), updated |-> r.updated,
              failed |-> FALSE]

(* -------------------------- ReminderService --------------------------- *)
\* the row get_or_create inserts when the event has no reminder yet
DefaultReminder(event) ==
    [event |-> event.id, pet |-> event.pet, remind_at |-> None, repeat |-> FALSE,
     repeat_days |-> {}, repeat_every |-> 1, remind_date |-> NoDate]

\* save_reminder's early return: no reminder time in the form
no_reminder_never(reminder_data) == FALSE

no_reminder(reminder_data) == reminder_data.remind_at = None

\* the remind_date save_reminder assigns; date() raises ValueError
remind_date_kept(event, reminder_data, adjust_date_to_event_year) ==
    IF reminder_data.remind_date # NoDate
    THEN IF adjust_date_to_event_year
         THEN PyDate(event.date[1], reminder_data.remind_date[2],
                     reminder_data.remind_date[3])
         ELSE reminder_data.remind_date
    ELSE NoDate

remind_date_of(event, reminder_data, adjust_date_to_event_year) ==
    IF reminder_data.remind_date # NoDate /\ ~reminder_data.repeat
    THEN IF adjust_date_to_event_year
         THEN PyDate(event.date[1], reminder_data.remind_date[2],
                     reminder_data.remind_date[3])
         ELSE reminder_data.remind_date
    ELSE NoDate

\* ReminderService.save_reminder
save_reminder(rems, event, reminder_data, adjust_date_to_event_year) ==
    IF no_reminder(reminder_data)
    THEN [reminders |-> rems, produced |-> FALSE, failed |-> FALSE]
    ELSE
      LET others == {r \in rems : r.event # event.id}
          remind_date == remind_date_of(event, reminder_data,
                                        adjust_date_to_event_year)
      IN  IF remind_date = ValueError
          THEN [reminders |-> IF \E r \in rems : r.event = event.id THEN rems
                              ELSE rems \cup {DefaultReminder(event)},
                produced |-> FALSE, failed |-> TRUE]
          ELSE [reminders |-> others \cup
                    {[event |-> event.id, pet |-> event.pet,
                      remind_at |-> reminder_data.remind_at,
                      repeat |-> reminder_data.repeat,
                      repeat_days |-> reminder_data.repeat_days,
                      repeat_every |-> reminder_data.repeat_every,
                      remind_date |-> remind_date]},
                produced |-> TRUE, failed |-> FALSE]

\* ReminderService.save_reminders_for_events; count is len(reminders)
RECURSIVE save_reminders_for_events(_, _, _)
save_reminders_for_events(rems, evlist, reminder_data) ==
    IF evlist = <<>> THEN [reminders |-> rems, count |-> 0, failed |-> FALSE]
    ELSE
      LET r == save_reminder(rems, Head(evlist), reminder_data, TRUE)
      IN  IF r.failed THEN [reminders |-> r.reminders, count |-> 0, failed |-> TRUE]
          ELSE LET rest == save_reminders_for_events(r.reminders, Tail(evlist),
                                                     reminder_data)
               IN  [reminders |-> rest.reminders,
                    count |-> rest.count + (IF r.produced THEN 1 ELSE 0),
                    failed |-> rest.failed]

(* ------------------------------ database ------------------------------ *)
\* the rows a delete collects: the given rows and, through the original_event
\* foreign key, the rows that reference them
RECURSIVE Collect(_, _)
Collect(evs, ids) ==
    LET more == {e.id : e \in {x \in evs : x.original_event \in ids}} \ ids
    IN  IF more = {} THEN ids ELSE Collect(evs, ids \cup more)

\* QuerySet.delete() / Model.delete() of the rows ids, with their reminders
DeleteRows(evs, rems, ids) ==
    LET gone == Collect(evs, ids)
    IN  [events |-> {e \in evs : e.id \notin gone},
         reminders |-> {r \in rems : r.event \notin gone}]

\* Model.save() of an instance that has a primary key
save(evs, obj) == {e \in evs : e.id # obj.id} \cup {obj}

\* the block run without a transaction: the writes made before the exception stay
atomic_without_rollback(pre, out) ==
    [events |-> out.events, reminders |-> out.reminders, nextId |-> out.nextId,
     result |-> IF out.failed THEN "exception" ELSE out.result]

\* with transaction.atomic(): an exception rolls every write back
atomic(pre, out) ==
    IF out.failed
    THEN [events |-> pre.events, reminders |-> pre.reminders, nextId |-> pre.nextId,
          result |-> "exception"]
    ELSE [events |-> out.events, reminders |-> out.reminders, nextId |-> out.nextId,
          result |-> out.result]

Rows(evs, ids) == [i \in 1..Len(ids) |-> Row(evs, ids[i])]

(* ------------------------------- views -------------------------------- *)
\* _create_yearly_event_v2 without its opening check
start_date_unchecked(evs, pet, title, start_date) == FALSE

\* the check of the start date that opens _create_yearly_event_v2
start_date_taken(evs, pet, title, start_date) ==
    check_duplicate(evs, pet, title, start_date, None)

\* _create_yearly_event_v2; made lists the primary keys of all_events
create_yearly_event_v2(db, pet, event_data, reminder_data, current_year) ==
    LET start_year == calculate_yearly_start_year(event_data.date, current_year).start_year
        start_date == get_safe_date(start_year, event_data.date[2], event_data.date[3])
        years_to_create == <<start_year, start_year + 1, start_year + 2>>
        s == create_yearly_series(db.events, db.nextId, pet, event_data, years_to_create)
        all_events == Rows(s.events, <<s.original_event>> \o s.created_events)
        r == save_reminders_for_events(db.reminders, all_events, reminder_data)
    IN  IF start_date = ValueError
        THEN [events |-> db.events, reminders |-> db.reminders, nextId |-> db.nextId,
              failed |-> TRUE, result |-> "exception"]
        ELSE IF start_date_taken(db.events, pet, event_data.title, start_date)
        THEN [events |-> db.events, reminders |-> db.reminders, nextId |-> db.nextId,
              failed |-> FALSE, result |-> "duplicate"]
        ELSE IF s.failed
        THEN [events |-> s.events, reminders |-> db.reminders, nextId |-> s.nextId,
              failed |-> TRUE, result |-> "exception"]
        ELSE IF s.original_event = None
        THEN [events |-> s.events, reminders |-> db.reminders, nextId |-> s.nextId,
              failed |-> FALSE, result |-> "no_series"]
        ELSE [events |-> s.events, reminders |-> r.reminders, nextId |-> s.nextId,
              failed |-> r.failed, result |-> "created"]

\* _create_single_event_v2
create_single_event_v2(db, pet, event_data, reminder_data) ==
    LET c == create_single_event(db.events, db.nextId, pet, event_data)
        r == save_reminder(db.reminders, Row(c.events, c.id), reminder_data, FALSE)
    IN  IF check_duplicate(db.events, pet, event_data.title, event_data.date, None)
        THEN [events |-> db.events, reminders |-> db.reminders, nextId |-> db.nextId,
              failed |-> FALSE, result |-> "duplicate"]
        ELSE [events |-> c.events, reminders |-> r.reminders, nextId |-> c.nextId,
              failed |-> r.failed, result |-> "created"]

\* add_event, POST
add_event(db, pet, event_data, reminder_data, current_year) ==
    IF event_data.date = NoDate \/ event_data.title = ""
    THEN [events |-> db.events, reminders |-> db.reminders, nextId |-> db.nextId,
          result |-> "invalid"]
    ELSE atomic(db, IF event_data.is_yearly
                    THEN create_yearly_event_v2(db, pet, event_data, reminder_data,
                                                current_year)
                    ELSE create_single_event_v2(db, pet, event_data, reminder_data))

\* the loop "for ev in events: ... ev.save()" of _handle_birthday_edit
RECURSIVE birthday_save_loop(_, _, _)
birthday_save_loop(evs, evlist, note) ==
    IF evlist = <<>> THEN evs
    ELSE birthday_save_loop(save(evs, [Head(evlist) EXCEPT !.note = note]),
                            Tail(evlist), note)

\* _handle_birthday_edit; event is the instance fetched by edit_event
handle_birthday_edit(db, event, note, reminder_data, apply_to_all) ==
    LET evlist == IF apply_to_all
                  THEN ById({e \in db.events : e.pet = event.pet
                                               /\ e.event_type = "birthday" /\ e.is_yearly})
                  ELSE <<event>>
        saved == [i \in 1..Len(evlist) |-> [evlist[i] EXCEPT !.note = note]]
        r == save_reminders_for_events(db.reminders, saved, reminder_data)
    IN  atomic(db, [events |-> birthday_save_loop(db.events, evlist, note),
                    reminders |-> r.reminders, nextId |-> db.nextId,
                    failed |-> r.failed, result |-> "updated"])

\* _handle_regular_event_edit; event is the instance fetched by edit_event
handle_regular_event_edit(db, event, event_data, reminder_data, apply_to_all) ==
    IF event_data.date = NoDate
    THEN [events |-> db.events, reminders |-> db.reminders, nextId |-> db.nextId,
          result |-> "invalid"]
    ELSE IF event_data.is_yearly /\ event_data.date[2] = 2 /\ event_data.date[3] = 29
    THEN [events |-> db.events, reminders |-> db.reminders, nextId |-> db.nextId,
          result |-> "invalid"]
    ELSE
      LET evlist == IF apply_to_all /\ event.is_yearly
                    THEN get_series_events(db.events, event) ELSE <<event>>
          u == update_events(db.events, evlist, event_data, TRUE)
          r == save_reminders_for_events(db.reminders, u.updated, reminder_data)
      IN  atomic(db, IF u.failed
                     THEN [events |-> u.events, reminders |-> db.reminders,
                           nextId |-> db.nextId, failed |-> TRUE, result |-> "exception"]
                     ELSE [events |-> u.events, reminders |-> r.reminders,
                           nextId |-> db.nextId, failed |-> r.failed,
                           result |-> "updated"])

\* edit_event, POST (_handle_edit_post)
edit_event(db, event, event_data, reminder_data, apply_to_all) ==
    IF event.event_type = "birthday"
    THEN handle_birthday_edit(db, event, event_data.note, reminder_data, apply_to_all)
    ELSE handle_regular_event_edit(db, event, event_data, reminder_data, apply_to_all)

\* check_pet_owner; pet is the Pet row
check_pet_owner(user, pet) == \E i \in 1..Len(pet.owners) : pet.owners[i] = user

\* mark_done that leaves done_year as it was
mark_done_without_year(db, event, current_year) ==
    [events |-> save(db.events, [event EXCEPT !.is_done = TRUE]),
     reminders |-> db.reminders, nextId |-> db.nextId, result |-> "done"]

\* mark_done, after the owner check
mark_done(db, event, current_year) ==
    [events |-> save(db.events, [event EXCEPT !.is_done = TRUE,
                                              !.done_year = current_year]),
     reminders |-> db.reminders, nextId |-> db.nextId, result |-> "done"]

\* delete_event, POST
delete_event(db, event, delete_all) ==
    LET is_series_original ==
            /\ event.is_yearly
            /\ recurring_events(db.events, event.id) # {}
            /\ event.original_event = None
        targets == IF delete_all /\ event.is_yearly
                   THEN {e.id : e \in {x \in db.events : x.pet = event.pet
                                                         /\ x.title = event.title
                                                         /\ x.is_yearly}}
                   ELSE {event.id}
        d == DeleteRows(db.events, db.reminders, targets)
    IN  IF is_series_original /\ ~delete_all
        THEN [events |-> db.events, reminders |-> db.reminders, nextId |-> db.nextId,
              result |-> "protected"]
        ELSE atomic(db, [events |-> d.events, reminders |-> d.reminders,
                         nextId |-> db.nextId, failed |-> FALSE, result |-> "deleted"])

\* the rollover linking the new row to its source, head or not
rollover_original_source(event) == event.id

\* original_event of the row the rollover creates from event
rollover_original(event) ==
    IF event.original_event # None THEN event.original_event ELSE event.id

\* the loop of create_next_year_events over last_year_events
RECURSIVE next_year_loop(_, _, _, _)
next_year_loop(evs, nid, sources, target_year) ==
    IF sources = <<>> THEN [events |-> evs, nextId |-> nid, created_count |-> 0]
    ELSE
      LET event == Head(sources)
          new_date == get_safe_date(target_year, event.date[2], event.date[3])
          create == new_date # ValueError
                    /\ ~check_duplicate(evs, event.pet, event.title, new_date, None)
          new == NewEvent(nid, event.pet, event.title, event.event_type, new_date,
                          event.note, TRUE, rollover_original(event))
          rest == IF create
                  THEN next_year_loop(evs \cup {new}, nid + 1, Tail(sources), target_year)
                  ELSE next_year_loop(evs, nid, Tail(sources), target_year)
      IN  [events |-> rest.events, nextId |-> rest.nextId,
           created_count |-> rest.created_count + (IF create THEN 1 ELSE 0)]

\* the queryset taken over the current year instead of the last one
last_year_events_this_year(evs, current_year) ==
    {e \in evs : e.is_yearly /\ e.date[1] = current_year}

\* the queryset last_year_events of create_next_year_events
last_year_events(evs, current_year) ==
    {e \in evs : e.is_yearly /\ e.date[1] = current_year - 1}

\* the target taken one year ahead instead of two
target_year_next(current_year) == current_year + 1

\* target_year of create_next_year_events
target_year_of(current_year) ==
    LET next_year == current_year + 1
    IN  next_year + 1

\* create_next_year_events
create_next_year_events(db, current_year) ==
    LET target_year == target_year_of(current_year)
        r == next_year_loop(db.events, db.nextId,
                            ById(last_year_events(db.events, current_year)), target_year)
    IN  [events |-> r.events, reminders |-> db.reminders, nextId |-> r.nextId,
         result |-> "rolled"]

(* ------------------------------- inputs ------------------------------- *)
Pets == {1, 2}

\* Pet rows: owners in the order they were added, creator the user who added
\* the pet; here pet p was created for user p with birthday left null
PetsAsCreated == [p \in Pets |-> [owners |-> <<p>>, creator |-> p, birthday |-> NoDate]]

\* ReminderFormData.from_post: remind_date is dropped when repeat is on
NoReminder ==
    [remind_at |-> None, remind_date |-> NoDate, repeat |-> FALSE,
     repeat_days |-> {}, repeat_every |-> 1]
RemindOnce ==
    [remind_at |-> 9, remind_date |-> <<2024, 2, 29>>, repeat |-> FALSE,
     repeat_days |-> {}, repeat_every |-> 1]
RemindWeekly ==
    [remind_at |-> 9, remind_date |-> NoDate, repeat |-> TRUE,
     repeat_days |-> {0}, repeat_every |-> 2]

Form(title, event_type, d, note, is_yearly) ==
    [title |-> title, event_type |-> event_type, date |-> d, note |-> note,
     is_yearly |-> is_yearly]

NoForm == Form("", "", NoDate, "", FALSE)

\* the POST bodies the model submits: the event form and the reminder form
Requests ==
    { <<Form("A", "vet", <<2025, 3, 15>>, "n1", TRUE), NoReminder>>,
      <<Form("A", "vet", <<2025, 3, 15>>, "n2", FALSE), NoReminder>>,
      <<Form("A", "vet", <<2026, 3, 15>>, "n1", TRUE), RemindOnce>>,
      <<Form("B", "vet", <<2025, 3, 15>>, "n1", TRUE), NoReminder>>,
      <<Form("B", "vet", <<2024, 2, 29>>, "n2", FALSE), RemindOnce>>,
      <<Form("A", "birthday", <<2024, 2, 29>>, "n1", TRUE), RemindWeekly>> }

\* the pets and POST bodies of add_event
AddInputs ==
    ({1} \X Requests) \cup {<<2, <<Form("A", "vet", <<2025, 3, 15>>, "n1", TRUE), NoReminder>> >>}

\* the users who send requests; user p is the one who added pet p
Users == {1, 2}

(* ------------------------------- state -------------------------------- *)
Db == [events |-> events, reminders |-> reminders, nextId |-> nextId]

Served(op, id, pet, form, years, all, result) ==
    [op |-> op, id |-> id, pet |-> pet, form |-> form, years |-> years, all |-> all,
     result |-> result]

Init ==
    /\ events = {}
    /\ reminders = {}
    /\ nextId = 1
    /\ now = FirstNow
    /\ steps = 0
    /\ last = Served("none", None, None, NoForm, <<>>, FALSE, "none")
    /\ pc = <<"idle", "idle">>
    /\ loaded = <<None, None>>
    /\ ev0 = {}
    /\ pets = PetsAsCreated

Commit(out) ==
    /\ events' = out.events
    /\ reminders' = out.reminders
    /\ nextId' = out.nextId
    /\ steps' = steps + 1
    /\ UNCHANGED <<now, pc, loaded, ev0, pets>>

\* POST add_event
AddEvent ==
    \E in \in AddInputs :
        LET pet == in[1]
            event_data == in[2][1]
            reminder_data == in[2][2]
            out == add_event(Db, pet, event_data, reminder_data, now)
        IN  /\ steps < MaxSteps
            /\ nextId + 2 <= MaxId
            /\ Commit(out)
            /\ last' = Served("add", None, pet, event_data, <<>>, FALSE, out.result)

\* POST edit_event
EditEvent ==
    \E event \in events, q \in Requests, apply_to_all \in BOOLEAN :
        LET out == edit_event(Db, event, q[1], q[2], apply_to_all)
        IN  /\ steps < MaxSteps
            /\ Commit(out)
            /\ last' = Served("edit", event.id, event.pet, NoForm, <<>>, apply_to_all,
                              out.result)

\* POST delete_event
DeleteEvent ==
    \E event \in events, delete_all \in BOOLEAN :
        LET out == delete_event(Db, event, delete_all)
        IN  /\ steps < MaxSteps
            /\ Commit(out)
            /\ last' = Served("delete", event.id, event.pet, NoForm, <<>>, delete_all,
                              out.result)

\* the scheduled run of create_next_year_events
Rollover ==
    LET out == create_next_year_events(Db, now)
    IN  /\ steps < MaxSteps
        /\ nextId + Cardinality(last_year_events(events, now)) - 1 <= MaxId
        /\ Commit(out)
        /\ last' = Served("rollover", None, None, NoForm, <<>>, FALSE, out.result)

\* the calendar year advances
NewYear ==
    /\ now < MaxNow
    /\ now' = now + 1
    /\ UNCHANGED <<events, reminders, nextId, steps, last, pc, loaded, ev0, pets>>

Next ==
    \/ AddEvent
    \/ EditEvent
    \/ DeleteEvent
    \/ Rollover
    \/ NewYear

Spec == Init /\ [][Next]_vars

\* ascending lists of years handed to create_yearly_series
YearLists ==
    { <<2026>>, <<2027>>, <<2028>>, <<2026, 2027>>, <<2026, 2028>>, <<2027, 2028>>,
      <<2026, 2027, 2028>> }

SeriesForms ==
    { Form("A", "vet", <<2025, 3, 15>>, "n1", TRUE),
      Form("A", "birthday", <<2024, 2, 29>>, "n1", TRUE) }

\* a call of EventService.create_yearly_series
CreateSeries ==
    \E form_data \in SeriesForms, years \in YearLists :
        LET out == create_yearly_series(events, nextId, 1, form_data, years)
        IN  /\ steps < MaxSteps
            /\ nextId + Len(years) - 1 <= MaxId
            /\ events' = out.events
            /\ nextId' = out.nextId
            /\ steps' = steps + 1
            /\ last' = Served("series", out.original_event, 1, form_data, years, FALSE,
                              IF out.original_event = None THEN "no_head" ELSE "head")
            /\ UNCHANGED <<reminders, now, pc, loaded, ev0, pets>>

NextSeries ==
    \/ AddEvent
    \/ CreateSeries
    \/ NewYear

SpecSeries == Init /\ [][NextSeries]_vars

(* ------------------------- concurrent edits -------------------------- *)
Requesters == {1, 2}

\* the store holds what one creation request left
InitConc ==
    \E q \in Requests :
        LET out == add_event([events |-> {}, reminders |-> {}, nextId |-> 1],
                             1, q[1], q[2], FirstNow)
        IN  /\ out.result = "created"
            /\ events = out.events
            /\ reminders = out.reminders
            /\ nextId = out.nextId
            /\ ev0 = out
    /\ now = FirstNow
    /\ steps = 0
    /\ last = Served("none", None, None, NoForm, <<>>, FALSE, "none")
    /\ pc = <<"idle", "idle">>
    /\ loaded = <<None, None>>
    /\ pets = PetsAsCreated

\* edit_event up to the POST dispatch: get_object_or_404 fetches the instance
\* outside any transaction
LoadEdit ==
    \E p \in Requesters, event \in events, q \in Requests :
        /\ pc[p] = "idle"
        /\ pc' = [pc EXCEPT ![p] = "loaded"]
        /\ loaded' = [loaded EXCEPT ![p] = [event |-> event, form |-> q[1],
                                            reminder |-> q[2]]]
        /\ UNCHANGED <<events, reminders, nextId, now, steps, last, ev0, pets>>

\* the transaction of the edit, apply_to_all = on, run on the fetched instance
ApplyEdit ==
    \E p \in Requesters :
        LET out == edit_event(Db, loaded[p].event, loaded[p].form, loaded[p].reminder,
                              TRUE)
        IN  /\ pc[p] = "loaded"
            /\ events' = out.events
            /\ reminders' = out.reminders
            /\ pc' = [pc EXCEPT ![p] = "done"]
            /\ UNCHANGED <<nextId, now, steps, last, loaded, ev0, pets>>

NextConc ==
    \/ LoadEdit
    \/ ApplyEdit

SpecConc == InitConc /\ [][NextConc]_vars

(* ------------------------------ claims ------------------------------- *)
\* the members of the series of the row id: its head and the rows whose
\* original_event is that head
SeriesOf(evs, id) ==
    LET e == Row(evs, id)
        head == IF e.original_event # None THEN e.original_event ELSE e.id
    IN  {head} \cup {x.id : x \in recurring_events(evs, head)}

Ids(evs) == {e.id : e \in evs}

\* the step just taken served a request of kind op
Step(op) == steps' = steps + 1 /\ last'.op = op

(* C1: after any sequence of single and yearly creations, single and
   apply-to-all edits, deletions and rollover runs, no two entries of the
   same pet share the same (title, date) pair. *)
NoDuplicates ==
    \A e \in events, f \in events :
        (e.pet = f.pet /\ e.title = f.title /\ e.date = f.date) => e.id = f.id

\* an apply-to-all edit has gone through on a pet that has two entries of one title
NoDuplicatesWitness ==
    /\ last.op = "edit" /\ last.all /\ last.result = "updated"
    /\ \E e \in events, f \in events :
           e.id # f.id /\ e.pet = f.pet /\ e.title = f.title /\ e.pet = last.pet

(* C2: every entry whose original_event is set references an entry that
   exists and is itself a head: no continuation is orphaned and no chain is
   deeper than one level. *)
HeadsExist ==
    \A e \in events :
        e.original_event # None =>
            \E h \in events : h.id = e.original_event /\ h.original_event = None

\* a rollover run has added a continuation to a series whose source is a continuation
HeadsExistWitness ==
    /\ last.op = "rollover"
    /\ \E e \in events, f \in events :
           /\ e.original_event # None /\ f.original_event = e.original_event
           /\ e.date[1] + 3 = f.date[1]

(* C3: a delete request without delete_all whose target is a head with at
   least one continuation is rejected and removes no entry. *)
HeadDeleteRejected ==
    [][(/\ Step("delete") /\ ~last'.all
        /\ Row(events, last'.id).original_event = None
        /\ recurring_events(events, last'.id) # {})
       => (last'.result = "protected" /\ events' = events)]_vars

(* C4: a delete request with delete_all on any member of a series removes
   the head and every continuation of that series. *)
DeleteAllRemovesSeries ==
    [][(Step("delete") /\ last'.all)
       => (SeriesOf(events, last'.id) \cap Ids(events') = {})]_vars

(* C5: a delete request removes only the target entry (without delete_all)
   or only the members of the target's series (with delete_all); every other
   entry is left unchanged. *)
DeleteFrame ==
    [][Step("delete")
       => \A e \in events :
              e.id \notin (IF last'.all THEN SeriesOf(events, last'.id) ELSE {last'.id})
              => e \in events']_vars

\* some entry of pet has the title on the date
Taken(evs, pet, title, d) ==
    \E e \in evs : e.pet = pet /\ e.title = title /\ e.date = d

\* the date a template falls on in year y: Feb 29 becomes Feb 28 off leap years
SafeOf(form, y) ==
    IF form.date[2] = 2 /\ form.date[3] = 29 /\ ~IsLeap(y)
    THEN <<y, 2, 28>> ELSE <<y, form.date[2], form.date[3]>>

Min(S) == CHOOSE x \in S : \A y \in S : x <= y

(* C6: createSeries over an ascending list of years skips each year whose
   (title, safe date) already exists for the pet, makes the first
   non-skipped year the head and every later non-skipped year a continuation
   of that head; if every year is skipped it returns no head and creates no
   entry. *)
CreateSeriesPlan ==
    [][Step("series")
       => LET f == last'.form
              ys == last'.years
              free == {i \in 1..Len(ys) : ~Taken(events, last'.pet, f.title, SafeOf(f, ys[i]))}
              new == events' \ events
          IN  /\ events \subseteq events'
              /\ Cardinality(new) = Cardinality(free)
              /\ free = {} => (last'.result = "no_head" /\ last'.id = None)
              /\ free # {} =>
                   \E h \in new :
                       /\ last'.result = "head" /\ h.id = last'.id
                       /\ h.original_event = None
                       /\ h.pet = last'.pet /\ h.title = f.title
                       /\ h.date = SafeOf(f, ys[Min(free)])
                       /\ \A i \in free \ {Min(free)} :
                              \E c \in new :
                                  /\ c.original_event = h.id
                                  /\ c.pet = last'.pet /\ c.title = f.title
                                  /\ c.date = SafeOf(f, ys[i])]_vars

\* a series was created around a year that was already taken: the head is a
\* new row, an older row holds a later year of the list, a continuation follows
CreateSeriesPlanWitness ==
    /\ last.op = "series" /\ last.result = "head" /\ Len(last.years) = 3
    /\ \E e \in events, c \in events :
           /\ e.id < last.id /\ e.pet = last.pet /\ e.title = last.form.title
           /\ e.date = SafeOf(last.form, last.years[2])
           /\ c.original_event = last.id
           /\ c.date = SafeOf(last.form, last.years[3])

\* the three years _create_yearly_event_v2 asks for
TargetYears(form, current_year) ==
    LET s == IF form.date[1] >= current_year - 1 THEN form.date[1] ELSE current_year - 1
    IN  {s, s + 1, s + 2}

(* C7, as claimed: a yearly creation request fails with a duplicate error
   only when none of its target years can be produced; whenever one target
   year is free the request creates a series headed by the first free year. *)
DuplicateOnlyWhenAllTaken ==
    [][(Step("add") /\ last'.form.is_yearly /\ last'.result # "invalid")
       => LET f == last'.form
              free == {y \in TargetYears(f, now) :
                          ~Taken(events, last'.pet, f.title, SafeOf(f, y))}
          IN  /\ last'.result = "duplicate" => free = {}
              /\ (free # {} /\ last'.result # "exception") =>
                   /\ last'.result = "created"
                   /\ \E h \in events' \ events :
                          h.original_event = None /\ h.date[1] = Min(free)]_vars

(* C7, amended: a yearly creation request fails with a duplicate error
   exactly when the (title, safe date) of its start year already exists for
   the pet, whatever the later years; otherwise, unless a reminder save
   raises, it creates a series headed by the start year in which each later
   target year that is already taken is skipped. *)
DuplicateWhenStartTaken ==
    [][(Step("add") /\ last'.form.is_yearly /\ last'.result # "invalid")
       => LET f == last'.form
              start == Min(TargetYears(f, now))
              free == {y \in TargetYears(f, now) :
                          ~Taken(events, last'.pet, f.title, SafeOf(f, y))}
              new == events' \ events
          IN  /\ last'.result \in {"duplicate", "created", "exception"}
              /\ last'.result = "duplicate" <=> start \notin free
              /\ last'.result # "created" => events' = events
              /\ last'.result = "created" =>
                   /\ events \subseteq events'
                   /\ {n.date : n \in new} = {SafeOf(f, y) : y \in free}
                   /\ \E h \in new :
                          /\ h.original_event = None /\ h.date = SafeOf(f, start)
                          /\ \A n \in new \ {h} : n.original_event = h.id]_vars

\* a yearly request was refused as a duplicate while a later target year was free
DuplicateWhenStartTakenWitness ==
    /\ last.op = "add" /\ last.form.is_yearly /\ last.result = "duplicate"
    /\ \E y \in TargetYears(last.form, now) :
           ~Taken(events, last.pet, last.form.title, SafeOf(last.form, y))

(* C8: yearly series creation and apply-to-all edit are all-or-nothing: when
   a step of the request raises, the entries and the reminder settings are
   left exactly as they were before the request. *)
FailureRollsBack ==
    [][((Step("add") \/ Step("edit")) /\ last'.result = "exception")
       => (events' = events /\ reminders' = reminders)]_vars

\* an apply-to-all edit of a series of several entries has raised
FailureRollsBackWitness ==
    /\ last.op = "edit" /\ last.all /\ last.result = "exception"
    /\ Cardinality(SeriesOf(events, last.id)) > 1
    /\ Row(events, last.id).is_yearly

(* C10: a rollover run in year Y creates, for each yearly entry dated in
   Y-1, one entry dated safeDate(Y+2, month, day) whose original_event is
   the source's head (the source itself when it is a head), unless an entry
   of the same pet, title and date exists; it creates nothing else and
   changes or removes no entry. *)
RolloverCreates ==
    [][Step("rollover")
       => LET src == {e \in events : e.is_yearly /\ e.date[1] = now - 1}
              Target(e) == IF e.date[2] = 2 /\ e.date[3] = 29 /\ ~IsLeap(now + 2)
                           THEN <<now + 2, 2, 28>>
                           ELSE <<now + 2, e.date[2], e.date[3]>>
              HeadOf(e) == IF e.original_event # None THEN e.original_event ELSE e.id
              new == events' \ events
          IN  /\ events \subseteq events'
              /\ reminders' = reminders
              /\ \A n \in new :
                     /\ n.is_yearly /\ ~n.is_done
                     /\ ~Taken(events, n.pet, n.title, n.date)
                     /\ \E s \in src :
                            /\ n.pet = s.pet /\ n.title = s.title
                            /\ n.event_type = s.event_type /\ n.note = s.note
                            /\ n.date = Target(s) /\ n.original_event = HeadOf(s)
              /\ \A s \in src :
                     Cardinality({x \in events' : x.pet = s.pet /\ x.title = s.title
                                                   /\ x.date = Target(s)}) = 1]_vars

\* a run has just added a continuation two years ahead behind an older head
RolloverCreatesWitness ==
    /\ last.op = "rollover"
    /\ \E n \in events, h \in events :
           /\ n.id = nextId - 1 /\ n.date[1] = now + 2
           /\ n.original_event = h.id /\ h.original_event = None

\* the store after request p and then request q ran one after the other on ev0
OneAfterTheOther(p, q) ==
    LET first == edit_event(ev0, Row(ev0.events, loaded[p].event.id), loaded[p].form,
                            loaded[p].reminder, TRUE)
        second == edit_event(first, Row(first.events, loaded[q].event.id),
                             loaded[q].form, loaded[q].reminder, TRUE)
    IN  <<second.events, second.reminders>>

(* C9: two concurrent apply-to-all edits of the same series are serialized:
   for every interleaving the final state equals the state reached by
   running the two edits one after the other in some order. *)
EditsSerialize ==
    (/\ pc = <<"done", "done">>
     /\ SeriesOf(ev0.events, loaded[1].event.id) = SeriesOf(ev0.events, loaded[2].event.id))
    => <<events, reminders>> \in {OneAfterTheOther(1, 2), OneAfterTheOther(2, 1)}


(* ------------------------ rollover, run and rerun --------------------- *)
MaxRollSteps == 4

\* the POST bodies of the rollover runs: two yearly series anchored in the
\* year before the first run, and a single entry two years after it
RollForms ==
    { Form("A", "vet", <<FirstNow - 1, 3, 15>>, "n1", TRUE),
      Form("B", "vet", <<FirstNow - 1, 3, 15>>, "n1", TRUE),
      Form("A", "vet", <<FirstNow + 2, 3, 15>>, "n2", FALSE) }

\* POST add_event of pet 1
AddRollEvent ==
    \E event_data \in RollForms :
        LET out == add_event(Db, 1, event_data, NoReminder, now)
        IN  /\ steps < MaxRollSteps
            /\ Commit(out)
            /\ last' = Served("add", None, 1, event_data, <<>>, FALSE, out.result)

\* what a run is to the run before it: last.years holds the year of a run
RunKind ==
    IF last.years = <<now>> /\ last.op = "job" THEN "after_complete_run"
    ELSE IF last.years = <<now>> /\ last.op = "job_stopped" THEN "after_stopped_run"
    ELSE "first_run"

\* a complete run of create_next_year_events; last.id holds created_count
RolloverJob ==
    LET out == create_next_year_events(Db, now)
    IN  /\ steps < MaxRollSteps
        /\ Commit(out)
        /\ last' = Served("job", Cardinality(out.events \ events), None, NoForm,
                          <<now>>, FALSE, RunKind)

\* a run of create_next_year_events that stops after k rows of its scan: the
\* job runs outside any transaction, so the rows created so far stay
RolloverStopped ==
    LET sources == ById(last_year_events(events, now))
    IN  \E k \in 1..(Len(sources) - 1) :
            LET out == next_year_loop(events, nextId, SubSeq(sources, 1, k),
                                      target_year_of(now))
            IN  /\ steps < MaxRollSteps
                /\ Commit([events |-> out.events, reminders |-> reminders,
                           nextId |-> out.nextId])
                /\ last' = Served("job_stopped", out.created_count, None, NoForm,
                                  <<now>>, FALSE, RunKind)

NextRoll ==
    \/ AddRollEvent
    \/ RolloverJob
    \/ RolloverStopped
    \/ NewYear

SpecRoll == Init /\ [][NextRoll]_vars

\* the rows after one more complete run on the rows evs
AfterRun(evs, nid) ==
    create_next_year_events([events |-> evs, reminders |-> {}, nextId |-> nid], now).events

(* C11: re-running the rollover job in the same year on the state left by a
   previous run, complete or stopped partway through its scan, creates no
   entry beyond those one complete run creates; a run after a complete run
   creates no entry. *)
RerunCreatesNothingMore ==
    [][(Step("job") \/ Step("job_stopped"))
       => /\ AfterRun(events', nextId') = AfterRun(events, nextId)
          /\ last'.op = "job" => AfterRun(events', nextId') = events'
          /\ last'.result = "after_complete_run" => events' = events]_vars

\* a run that followed a stopped run of the same year has created the rest
RerunCreatesNothingMoreWitness ==
    /\ last.op = "job" /\ last.result = "after_stopped_run" /\ last.id >= 1
    /\ Cardinality({e \in events : e.date[1] = now + 2 /\ e.original_event # None}) >= 2


(* C12, as claimed: after a rollover run completes in year Y, every series
   that contains a yearly-flagged entry dated in Y-1 also contains an entry
   dated in Y+2. *)
WindowStaysPopulated ==
    [][Step("job")
       => \A e \in events' :
              (e.is_yearly /\ e.date[1] = now - 1)
              => \E x \in events' :
                     x.id \in SeriesOf(events', e.id) /\ x.date[1] = now + 2]_vars

(* C12, amended: after a rollover run completes in year Y, every series that
   contains a yearly-flagged entry dated in Y-1 also contains an entry dated
   in Y+2, unless an entry of the same pet outside that series holds the
   entry's title on its safe date of Y+2; the run then adds nothing to the
   series for that entry. *)
WindowPopulatedUnlessTaken ==
    [][Step("job")
       => \A e \in events' :
              (e.is_yearly /\ e.date[1] = now - 1)
              => \/ \E x \in events' :
                        x.id \in SeriesOf(events', e.id) /\ x.date = SafeOf(e, now + 2)
                 \/ /\ \E x \in events' :
                           /\ x.id \notin SeriesOf(events', e.id)
                           /\ x.pet = e.pet /\ x.title = e.title
                           /\ x.date = SafeOf(e, now + 2)
                    /\ \A x \in events' \ events :
                           x.id \notin SeriesOf(events', e.id)]_vars

\* a run has left a series without an entry two years ahead because a single
\* entry of the pet holds the title on that date
WindowPopulatedUnlessTakenWitness ==
    /\ last.op = "job"
    /\ \E e \in events, x \in events :
           /\ e.is_yearly /\ e.date[1] = now - 1
           /\ ~x.is_yearly /\ x.id \notin SeriesOf(events, e.id)
           /\ x.pet = e.pet /\ x.title = e.title /\ x.date = SafeOf(e, now + 2)
           /\ \A y \in events : y.id \in SeriesOf(events, e.id) => y.date[1] # now + 2


(* ------------------------------ edits --------------------------------- *)
MaxBatch == 2

\* the entries the edits work on: two yearly series on the same day and a
\* single entry that holds the second title in one of their years
EditSeeds ==
    { Form("A", "vet", <<2025, 3, 15>>, "n1", TRUE),
      Form("B", "vet", <<2025, 3, 15>>, "n1", TRUE),
      Form("B", "vet", <<2026, 3, 15>>, "n2", FALSE) }

\* the edit forms: a new title on the same day, a new day, Feb 29 on a
\* non-yearly and on a yearly form
EditForms ==
    { Form("B", "vet", <<2030, 3, 15>>, "n1", TRUE),
      Form("A", "vet", <<2030, 4, 20>>, "n2", TRUE),
      Form("A", "vet", <<2024, 2, 29>>, "n1", FALSE),
      Form("A", "vet", <<2024, 2, 29>>, "n1", TRUE) }

\* POST add_event of pet 1
AddSeedEvent ==
    \E event_data \in EditSeeds :
        LET out == add_event(Db, 1, event_data, NoReminder, now)
        IN  /\ steps < MaxSteps
            /\ Commit(out)
            /\ last' = Served("add", None, 1, event_data, <<>>, FALSE, out.result)

\* POST edit_event; the form is kept with the request
EditForm ==
    \E event \in events, event_data \in EditForms, apply_to_all \in BOOLEAN :
        LET out == edit_event(Db, event, event_data, NoReminder, apply_to_all)
        IN  /\ steps < MaxSteps
            /\ Commit(out)
            /\ last' = Served("edit", event.id, event.pet, event_data, <<>>,
                              apply_to_all, out.result)

\* the lists of instances handed to update_events: a resolved series, or up to
\* MaxBatch rows
Batches ==
    {get_series_events(events, e) : e \in events}
    \cup {ById(S) : S \in {T \in SUBSET events : Cardinality(T) \in 1..MaxBatch}}

Pks(evlist) == [i \in 1..Len(evlist) |-> evlist[i].id]

\* a call of EventService.update_events
UpdateEvents ==
    \E evlist \in Batches, form_data \in EditForms, update_date \in BOOLEAN :
        LET out == update_events(events, evlist, form_data, update_date)
        IN  /\ steps < MaxSteps
            /\ Commit([events |-> out.events, reminders |-> reminders,
                       nextId |-> nextId])
            /\ last' = [op |-> "update_events", batch |-> Pks(evlist),
                        form |-> form_data, update_date |-> update_date,
                        updated |-> Pks(out.updated),
                        result |-> IF out.failed THEN "exception" ELSE "returned"]

NextEdit ==
    \/ AddSeedEvent
    \/ EditForm
    \/ UpdateEvents

SpecEdit == Init /\ [][NextEdit]_vars


(* C13: applying an edit whose template date is Feb 29 to an entry whose own
   year is not a leap year corrects the date to Feb 28 of that entry's year;
   the edit never fails or raises because of the leap-day mismatch. *)
LeapDayEditCorrected ==
    [][(/\ Step("edit") /\ ~last'.all
        /\ last'.form.date[2] = 2 /\ last'.form.date[3] = 29
        /\ ~IsLeap(Row(events, last'.id).date[1])
        /\ ~Taken(events, last'.pet, last'.form.title,
                  <<Row(events, last'.id).date[1], 2, 28>>))
       => /\ last'.result = "updated"
          /\ Row(events', last'.id).date = <<Row(events, last'.id).date[1], 2, 28>>]_vars


(* ------------------------- date construction -------------------------- *)
MaxMonth == 13
MaxDay == 32

\* the years get_safe_date is tried on: leap and non-leap years, a century
\* that is a leap year and one that is not
SafeDateYears == {2000, 2023, 2024, 2025, 2028, 2100}

\* one triple (year, month, day) is drawn
InitDates ==
    /\ events = {}
    /\ reminders = {}
    /\ nextId = 1
    /\ now = FirstNow
    /\ steps = 0
    /\ \E y \in SafeDateYears, m \in 0..MaxMonth, d \in 0..MaxDay :
           last = Served("input", None, None, Form("", "", <<y, m, d>>, "", FALSE),
                         <<>>, FALSE, "none")
    /\ pc = <<"idle", "idle">>
    /\ loaded = <<None, None>>
    /\ ev0 = {}
    /\ pets = PetsAsCreated

\* a call of EventService.get_safe_date; last.years holds the date returned
GetSafeDate ==
    LET d == last.form.date
        r == get_safe_date(d[1], d[2], d[3])
    IN  /\ last.op = "input"
        /\ steps' = steps + 1
        /\ last' = Served("get_safe_date", None, None, last.form,
                          IF r = ValueError THEN <<>> ELSE r, FALSE,
                          IF r = ValueError THEN "raised" ELSE "returned")
        /\ UNCHANGED <<events, reminders, nextId, now, pc, loaded, ev0, pets>>

NextDates == GetSafeDate

SpecDates == InitDates /\ [][NextDates]_vars

(* C14: for every (year, month, day), get_safe_date returns the date itself
   when it is a valid calendar date, returns Feb 28 of the year when month =
   2, day = 29 and the year is not a leap year (2000 keeps Feb 29, 2100 is
   corrected), and raises for every other invalid combination. *)
SafeDateCases ==
    [][Step("get_safe_date")
       => LET y == last.form.date[1]
              m == last.form.date[2]
              d == last.form.date[3]
              leap == y % 4 = 0 /\ (y % 100 # 0 \/ y % 400 = 0)
              length == IF m \in {4, 6, 9, 11} THEN 30
                        ELSE IF m = 2 THEN (IF leap THEN 29 ELSE 28) ELSE 31
              valid == m >= 1 /\ m <= 12 /\ d >= 1 /\ d <= length
          IN  IF valid
              THEN last'.result = "returned" /\ last'.years = <<y, m, d>>
              ELSE IF m = 2 /\ d = 29
              THEN last'.result = "returned" /\ last'.years = <<y, 2, 28>>
              ELSE last'.result = "raised"]_vars

\* Feb 29 of 2100 has come back as Feb 28
SafeDateCasesWitness ==
    /\ last.op = "get_safe_date" /\ last.form.date = <<2100, 2, 29>>
    /\ last.result = "returned" /\ last.years = <<2100, 2, 28>>


(* ---------------------------- start year ------------------------------ *)
\* the years of the dates calculate_yearly_start_year is tried on
RequestedYears == 2020..2030

\* a requested date and a current year are drawn
InitStart ==
    /\ events = {}
    /\ reminders = {}
    /\ nextId = 1
    /\ now \in FirstNow..MaxNow
    /\ steps = 0
    /\ \E y \in RequestedYears :
           last = Served("input", None, None, Form("", "", <<y, 3, 15>>, "", FALSE),
                         <<>>, FALSE, "none")
    /\ pc = <<"idle", "idle">>
    /\ loaded = <<None, None>>
    /\ ev0 = {}
    /\ pets = PetsAsCreated

\* a call of EventService.calculate_yearly_start_year; last.years holds
\* start_year
CalculateStartYear ==
    LET r == calculate_yearly_start_year(last.form.date, now)
    IN  /\ last.op = "input"
        /\ steps' = steps + 1
        /\ last' = Served("start_year", None, None, last.form, <<r.start_year>>, FALSE,
                          IF r.warning THEN "warning" ELSE "no_warning")
        /\ UNCHANGED <<events, reminders, nextId, now, pc, loaded, ev0, pets>>

NextStart ==
    \/ CalculateStartYear
    \/ AddEvent

SpecStart == InitStart /\ [][NextStart]_vars

(* C15: calculate_yearly_start_year returns the requested year with no
   warning when it is >= current year - 1, and otherwise current year - 1
   with a warning; the head of every series created through the yearly
   creation path is dated in a year >= current year - 1. *)
StartYearResolved ==
    [][/\ Step("start_year")
          => LET y == last.form.date[1]
             IN  IF y >= now - 1
                 THEN last'.years = <<y>> /\ last'.result = "no_warning"
                 ELSE last'.years = <<now - 1>> /\ last'.result = "warning"
       /\ (Step("add") /\ last'.form.is_yearly /\ last'.result = "created")
          => \E h \in events' \ events :
                 /\ h.original_event = None /\ h.date[1] >= now - 1
                 /\ (last'.form.date[1] >= now - 1 => h.date[1] = last'.form.date[1])
                 /\ \A n \in (events' \ events) \ {h} : n.original_event = h.id]_vars

\* a yearly request dated two years back has created a series headed in the
\* year before the current one
StartYearResolvedWitness ==
    /\ last.op = "add" /\ last.form.is_yearly /\ last.result = "created"
    /\ last.form.date[1] < now - 1
    /\ \E h \in events : h.original_event = None /\ h.date[1] = now - 1


(* C16: for a template dated Feb 29, create_yearly_series over any list of
   years dates each created entry Feb 28 of its year when the year is not a
   leap year and Feb 29 when it is; for any other template each created
   entry has the template's month and day in its own year. *)
SeriesDates ==
    [][Step("series")
       => LET f == last'.form
              ys == {last'.years[i] : i \in 1..Len(last'.years)}
              new == events' \ events
              feb29 == f.date[2] = 2 /\ f.date[3] = 29
              Day(y) == IF feb29
                        THEN (IF y % 4 = 0 /\ (y % 100 # 0 \/ y % 400 = 0)
                              THEN <<y, 2, 29>> ELSE <<y, 2, 28>>)
                        ELSE <<y, f.date[2], f.date[3]>>
          IN  /\ \A n \in new : n.date[1] \in ys /\ n.date = Day(n.date[1])
              /\ \A y \in ys :
                     \E e \in events' :
                         e.pet = last'.pet /\ e.title = f.title /\ e.date = Day(y)]_vars

\* a Feb 29 template has produced Feb 28 of 2027 and Feb 29 of 2028 in one series
SeriesDatesWitness ==
    /\ last.op = "series" /\ last.result = "head"
    /\ last.form.date[2] = 2 /\ last.form.date[3] = 29
    /\ \E a \in events, b \in events :
           /\ a.date = <<2027, 2, 28>> /\ b.date = <<2028, 2, 29>>
           /\ a.id >= last.id /\ b.original_event = last.id


(* C17: update_events with update_date on gives each accepted entry the
   template's month and day combined with that entry's own year; no edit,
   single-entry or apply-to-all, ever changes the year of an entry's date. *)
EditKeepsYear ==
    [][(Step("edit") \/ Step("update_events"))
       => /\ \A e \in events :
                 \E x \in events' : x.id = e.id /\ x.date[1] = e.date[1]
          /\ (last'.op = "update_events" /\ last'.update_date)
             => \A i \in 1..Len(last'.updated) :
                    Row(events', last'.updated[i]).date =
                        <<Row(events, last'.updated[i]).date[1],
                          last'.form.date[2], last'.form.date[3]>>
          /\ last'.op = "edit"
             => \A e \in events :
                    Row(events', e.id) # e
                    => Row(events', e.id).date =
                           <<e.date[1], last'.form.date[2], last'.form.date[3]>>]_vars

\* an apply-to-all edit has moved the entries of a series, each in its own
\* year, to the day of a form dated in another year
EditKeepsYearWitness ==
    /\ last.op = "edit" /\ last.all /\ last.result = "updated"
    /\ \E a \in events, b \in events :
           /\ a.id \in SeriesOf(events, last.id) /\ b.id \in SeriesOf(events, last.id)
           /\ a.date[1] # b.date[1]
           /\ a.date[1] # last.form.date[1] /\ b.date[1] # last.form.date[1]
           /\ a.date[2] = 4 /\ b.date[2] = 4
           /\ a.date[2] = last.form.date[2] /\ a.date[3] = last.form.date[3]
           /\ b.date[2] = last.form.date[2] /\ b.date[3] = last.form.date[3]


(* C18: update_events skips every entry whose resulting (title, date) equals
   a pair already claimed by an earlier entry of the same batch or the pair
   of a persisted entry other than itself; each skipped entry keeps all its
   fields unchanged, and the returned list is exactly the accepted entries. *)
SkipsCollisions ==
    [][(Step("update_events") /\ last'.result = "returned")
       => LET f == last'.form
              batch == last'.batch
              accepted == {last'.updated[i] : i \in 1..Len(last'.updated)}
              Was(id) == Row(events, id)
              NewDate(id) == IF last'.update_date
                             THEN <<Was(id).date[1], f.date[2], f.date[3]>>
                             ELSE Was(id).date
              Persisted(id) == \E p \in events :
                                   /\ p.id # id /\ p.pet = Was(id).pet
                                   /\ p.title = f.title /\ p.date = NewDate(id)
              Claimed(i) == \E j \in 1..(i - 1) :
                                batch[j] \in accepted /\ NewDate(batch[j]) = NewDate(batch[i])
              In(id) == id \in accepted
          IN  /\ \A i \in 1..Len(batch) :
                     batch[i] \in accepted <=> ~(Claimed(i) \/ Persisted(batch[i]))
              /\ last'.updated = SelectSeq(batch, In)
              /\ \A e \in events : e.id \notin accepted => e \in events'
              /\ \A id \in accepted :
                     Row(events', id) =
                         [Was(id) EXCEPT !.title = f.title, !.event_type = f.event_type,
                                         !.date = NewDate(id), !.note = f.note,
                                         !.is_yearly = f.is_yearly]]_vars

\* of two entries of one year handed over together, the first has taken the
\* pair and the second has been skipped though no stored entry held the pair
SkipsCollisionsWitness ==
    /\ last.op = "update_events" /\ last.result = "returned"
    /\ last.update_date
    /\ Len(last.batch) = 2 /\ last.updated = <<last.batch[1]>>
    /\ Row(events, last.batch[1]).date[1] = Row(events, last.batch[2]).date[1]
    /\ Row(events, last.batch[2]).title # last.form.title
    /\ Cardinality({e \in events : e.title = last.form.title
                                   /\ e.date = Row(events, last.batch[1]).date}) = 1


\* the step just taken handed a whole series of several entries to
\* update_events with update_date off and a form that differs from the
\* members in the title only
RetitledSeries ==
    /\ Step("update_events") /\ ~last'.update_date
    /\ Len(last'.batch) > 1
    /\ {last'.batch[i] : i \in 1..Len(last'.batch)} = SeriesOf(events, last'.batch[1])
    /\ \A i \in 1..Len(last'.batch) :
           LET m == Row(events, last'.batch[i])
           IN  /\ m.title # last'.form.title
               /\ m.event_type = last'.form.event_type /\ m.note = last'.form.note
               /\ m.is_yearly = last'.form.is_yearly

\* the same call made once more on the rows the step has left
Again ==
    update_events(events', Rows(events', last'.batch), last'.form, FALSE)

(* C19, as claimed: update_events with update_date off that changes only the
   title of a series leaves every member's date unchanged and gives every
   member the new title; the identical edit applied a second time leaves the
   store in the same state and skips no entry. *)
RetitleReachesAll ==
    [][RetitledSeries
       => /\ \A i \in 1..Len(last'.batch) :
                 /\ Row(events', last'.batch[i]).date = Row(events, last'.batch[i]).date
                 /\ Row(events', last'.batch[i]).title = last'.form.title
          /\ Again.events = events'
          /\ Len(Again.updated) = Len(last'.batch)]_vars

(* C19, amended: update_events with update_date off that changes only the
   title of a series leaves every member's date unchanged and gives the new
   title to every member except those whose date already carries the new
   title on another entry of the pet, which are skipped and keep their
   title; the identical edit applied a second time leaves the store in the
   same state and accepts and skips the same entries. *)
RetitleReachesFree ==
    [][RetitledSeries
       => /\ \A i \in 1..Len(last'.batch) :
                 LET m == Row(events, last'.batch[i])
                     held == \E p \in events :
                                 /\ p.id # m.id /\ p.pet = m.pet
                                 /\ p.title = last'.form.title /\ p.date = m.date
                 IN  /\ Row(events', m.id).date = m.date
                     /\ Row(events', m.id).title =
                            (IF held THEN m.title ELSE last'.form.title)
          /\ Again.events = events'
          /\ ~Again.failed
          /\ Pks(Again.updated) = last'.updated]_vars

\* a series of three has been retitled but for the member whose date another
\* entry holds under the new title
RetitleReachesFreeWitness ==
    /\ last.op = "update_events" /\ ~last.update_date /\ last.result = "returned"
    /\ Len(last.batch) = 3 /\ Len(last.updated) = 2
    /\ \E i \in 1..3 :
           /\ Row(events, last.batch[i]).title # last.form.title
           /\ \E p \in events : /\ p.title = last.form.title
                                /\ p.date = Row(events, last.batch[i]).date
                                /\ p.id \notin SeriesOf(events, last.batch[1])
    /\ \A j \in 1..2 : Row(events, last.updated[j]).title = last.form.title


(* C20: after any sequence of series creations, single-entry edits,
   apply-to-all edits and rollover runs, all entries of one series (the head
   and every entry whose original_event is that head) have the same title
   and the same type. *)
SeriesShareTitleAndType ==
    \A e \in events, f \in events :
        f.id \in SeriesOf(events, e.id)
        => (f.title = e.title /\ f.event_type = e.event_type)


(* C21: after any sequence of series creations, edits and rollover runs over
   successive years, each series has one anchor (month, day) and every
   member's date is the safe date of the anchor in the member's year: a
   series anchored on Feb 29 has its members on Feb 29 in leap years and on
   Feb 28 in all other years. *)
SeriesAnchored ==
    \A h \in events :
        h.original_event = None
        => \E m \in 1..12, d \in 1..31 :
               \A x \in events :
                   x.id \in SeriesOf(events, h.id)
                   => x.date = SafeOf([date |-> <<0, m, d>>], x.date[1])


(* ----------------------------- reminders ------------------------------ *)
\* ReminderFormData values handed to ReminderService directly: with and
\* without a time, repeating or not, with no date, a leap day, a plain day
ReminderTemplates ==
    { [remind_at |-> t, remind_date |-> d, repeat |-> r,
       repeat_days |-> IF r THEN {0} ELSE {}, repeat_every |-> IF r THEN 2 ELSE 1] :
      t \in {None, 9}, d \in {NoDate, <<2024, 2, 29>>, <<2030, 6, 1>>},
      r \in BOOLEAN }

\* the lists handed to save_reminders_for_events: a resolved series or one row
ReminderSets == {get_series_events(events, e) : e \in events} \cup {<<e>> : e \in events}

\* the reminder row of an entry, as a set of at most one
ReminderOf(rems, id) == {r \in rems : r.event = id}

\* a call of ReminderService.save_reminder; the row found before the call is
\* kept with the call
SaveReminder ==
    \E event \in events, reminder_data \in ReminderTemplates, adjust \in BOOLEAN :
        LET out == save_reminder(reminders, event, reminder_data, adjust)
        IN  /\ steps < MaxSteps
            /\ Commit([events |-> events, reminders |-> out.reminders,
                       nextId |-> nextId])
            /\ last' = [op |-> "save_reminder", id |-> event.id,
                        template |-> reminder_data, adjust |-> adjust,
                        before |-> ReminderOf(reminders, event.id),
                        produced |-> out.produced,
                        result |-> IF out.failed THEN "exception" ELSE "returned"]

\* a call of ReminderService.save_reminders_for_events
SaveForSet ==
    \E evlist \in ReminderSets, reminder_data \in ReminderTemplates :
        LET out == save_reminders_for_events(reminders, evlist, reminder_data)
        IN  /\ steps < MaxSteps
            /\ Commit([events |-> events, reminders |-> out.reminders,
                       nextId |-> nextId])
            /\ last' = [op |-> "save_for_set", batch |-> Pks(evlist),
                        template |-> reminder_data, count |-> out.count,
                        result |-> IF out.failed THEN "exception" ELSE "returned"]

NextRemind ==
    \/ AddSeedEvent
    \/ SaveReminder
    \/ SaveForSet

SpecRemind == Init /\ [][NextRemind]_vars

(* C22: after any sequence of saveReminder and saveForSet calls every stored
   reminder config with repeat = true has no remindDate; a saveReminder call
   with repeat = true and a supplied remindDate stores no remindDate, also
   when the config held a date before. *)
RepeatClearsDate ==
    [][ /\ \A r \in reminders' : r.repeat => r.remind_date = NoDate
        /\ (Step("save_reminder") /\ last'.template.repeat
            /\ last'.template.remind_at # None)
           => \A r \in ReminderOf(reminders', last'.id) :
                  r.repeat /\ r.remind_date = NoDate ]_vars

RepeatClearsDateWitness ==
    /\ last.op = "save_reminder"
    /\ last.template.repeat
    /\ last.template.remind_date # NoDate
    /\ last.result = "returned"
    /\ \E b \in last.before : b.remind_date # NoDate
    /\ \E r \in ReminderOf(reminders, last.id) : r.repeat /\ r.remind_date = NoDate


\* the entries of a batch whose stored row carries what the template writes
ProducedFor(rems, batch, template) ==
    {i \in 1..Len(batch) :
        /\ template.remind_at # None
        /\ \E r \in ReminderOf(rems, batch[i]) :
               /\ r.remind_at = template.remind_at
               /\ r.repeat = template.repeat
               /\ r.repeat_days = template.repeat_days
               /\ r.repeat_every = template.repeat_every}

(* C23: saveReminder with a template without remindAt returns none, creates
   no reminder config and leaves the entry's existing config unchanged;
   saveForSet returns as many configs as entries for which one was produced,
   none when remindAt is absent. *)
NoTimeNoReminder ==
    [][ /\ (Step("save_reminder") /\ last'.template.remind_at = None)
           => /\ reminders' = reminders
              /\ ~last'.produced
              /\ last'.result = "returned"
        /\ (Step("save_for_set") /\ last'.result = "returned")
           => /\ last'.count
                 = Cardinality(ProducedFor(reminders', last'.batch, last'.template))
              /\ last'.template.remind_at = None
                 => last'.count = 0 /\ reminders' = reminders ]_vars

NoTimeNoReminderWitness ==
    /\ last.op = "save_reminder"
    /\ last.template.remind_at = None
    /\ last.before # {}
    /\ ReminderOf(reminders, last.id) = last.before
    /\ ~last.produced


(* C24: saveForSet with repeat = false and a remindDate stores, for every
   entry of the set, a remindDate with the template's month and day in that
   entry's own year, whatever the entry's year and the template's date. *)
RebasedForEveryEntry ==
    [][ (/\ Step("save_for_set")
         /\ last'.template.remind_at # None
         /\ ~last'.template.repeat
         /\ last'.template.remind_date # NoDate)
        => \A i \in 1..Len(last'.batch) :
               \E e \in events, r \in ReminderOf(reminders', last'.batch[i]) :
                   /\ e.id = last'.batch[i]
                   /\ r.remind_date = <<e.date[1], last'.template.remind_date[2],
                                        last'.template.remind_date[3]>> ]_vars


(* C25: resolveSeries returns, for any member of a series (head or
   continuation), the head followed by all entries whose headRef is that
   head, each once; the result is the same whichever member it is called
   with. *)
ResolvesWholeSeries ==
    \A e \in events :
        LET series == get_series_events(events, e)
            head == IF e.original_event # None THEN e.original_event ELSE e.id
        IN  /\ series[1].id = head
            /\ series[1].original_event = None
            /\ {series[i] : i \in 2..Len(series)}
               = {x \in events : x.original_event = head}
            /\ Len(series) = 1 + Cardinality({x \in events : x.original_event = head})
            /\ \A i \in 1..Len(series) : get_series_events(events, series[i]) = series

ResolvesWholeSeriesWitness ==
    /\ last.op = "edit"
    /\ last.all
    /\ last.result = "updated"
    /\ \E e \in events :
           /\ e.id = last.id
           /\ e.original_event # None
           /\ Len(get_series_events(events, e)) >= 3


(* C26: creating a single non-yearly entry whose (title, date) already exists
   for the same pet is rejected as a duplicate and leaves the store
   unchanged; the same (title, date) held by a different pet is no duplicate
   and the entry is created. *)
SingleDuplicateRejected ==
    [][ (Step("add") /\ ~last'.form.is_yearly)
        => IF Taken(events, last'.pet, last'.form.title, last'.form.date)
           THEN /\ last'.result = "duplicate"
                /\ events' = events
                /\ reminders' = reminders
           ELSE /\ last'.result = "created"
                /\ \E e \in events' \ events :
                       /\ events' = events \cup {e}
                       /\ e.pet = last'.pet
                       /\ e.title = last'.form.title
                       /\ e.date = last'.form.date
                       /\ ~e.is_yearly ]_vars

SingleDuplicateRejectedWitness ==
    /\ last.op = "add"
    /\ ~last.form.is_yearly
    /\ last.result = "created"
    /\ \E e \in events, f \in events :
           /\ e.pet = last.pet /\ f.pet # last.pet
           /\ e.title = last.form.title /\ f.title = e.title
           /\ e.date = last.form.date /\ f.date = e.date


(* ---------------------------- marking done ---------------------------- *)
\* mark_done requested by a user
MarkDone ==
    \E event \in events, user \in Users :
        LET out == IF check_pet_owner(user, pets[event.pet])
                   THEN mark_done(Db, event, now)
                   ELSE [events |-> events, reminders |-> reminders,
                         nextId |-> nextId, result |-> "forbidden"]
        IN  /\ steps < MaxSteps
            /\ Commit(out)
            /\ last' = Served("done", event.id, event.pet, NoForm, <<>>, FALSE,
                              out.result)

\* a reminder update of one entry: save_reminder with a posted reminder form
UpdateReminder ==
    \E event \in events, reminder_data \in {RemindOnce, RemindWeekly} :
        LET out == save_reminder(reminders, event, reminder_data, FALSE)
        IN  /\ steps < MaxSteps
            /\ Commit([events |-> events, reminders |-> out.reminders,
                       nextId |-> nextId])
            /\ last' = Served("remind", event.id, event.pet, NoForm, <<>>, FALSE,
                              IF out.produced THEN "saved" ELSE "none")

NextDone ==
    \/ AddSeedEvent
    \/ MarkDone
    \/ EditForm
    \/ UpdateReminder
    \/ Rollover
    \/ NewYear

SpecDone == Init /\ [][NextDone]_vars

(* C27: marking an entry done sets isDone and doneYear = current year on
   that entry only and changes no other field, entry or reminder; an entry
   that is done stays done through every later edit, rollover run and
   reminder update. *)
DoneStaysDone ==
    [][ /\ (Step("done") /\ last'.result = "done")
           => \E e \in events :
                  /\ e.id = last'.id
                  /\ events' = (events \ {e})
                               \cup {[e EXCEPT !.is_done = TRUE, !.done_year = now]}
                  /\ reminders' = reminders
        /\ \A e \in events, f \in events' :
               (e.is_done /\ f.id = e.id) => f.is_done ]_vars

DoneStaysDoneWitness ==
    /\ last.op = "edit"
    /\ last.result = "updated"
    /\ \E e \in events : e.id = last.id /\ e.is_done /\ e.done_year = FirstNow


(* ------------------------ concurrent creations ------------------------ *)
\* add_event inside its transaction: the duplicate checks read the committed
\* rows, the inserted rows stay invisible to the other request until commit
RunAdd ==
    \E p \in Requesters, in \in AddInputs :
        LET out == add_event(Db, in[1], in[2][1], in[2][2], now)
        IN  /\ pc[p] = "idle"
            /\ pc' = [pc EXCEPT ![p] = "inserted"]
            /\ loaded' = [loaded EXCEPT ![p] =
                              [pet |-> in[1], form |-> in[2][1],
                               events |-> out.events \ events,
                               reminders |-> out.reminders \ reminders,
                               result |-> out.result]]
            /\ nextId' = out.nextId
            /\ UNCHANGED <<events, reminders, now, steps, last, ev0, pets>>

\* the transaction of the request commits: its rows are inserted for good
CommitAdd ==
    \E p \in Requesters :
        /\ pc[p] = "inserted"
        /\ pc' = [pc EXCEPT ![p] = "done"]
        /\ events' = events \cup loaded[p].events
        /\ reminders' = reminders \cup loaded[p].reminders
        /\ UNCHANGED <<nextId, now, steps, last, loaded, ev0, pets>>

NextRace ==
    \/ RunAdd
    \/ CommitAdd

SpecRace == Init /\ [][NextRace]_vars

(* C28: when two creation requests for the same pet with the same title and
   date run concurrently, at most one entry with that (title, date) exists
   once both have finished, whatever the interleaving of their checks and
   inserts. *)
OneEntryAfterRace ==
    (/\ pc[1] = "done" /\ pc[2] = "done"
     /\ loaded[1].pet = loaded[2].pet
     /\ loaded[1].form.title = loaded[2].form.title
     /\ loaded[1].form.date = loaded[2].form.date)
    => Cardinality({e \in events : /\ e.pet = loaded[1].pet
                                   /\ e.title = loaded[1].form.title
                                   /\ e.date = loaded[1].form.date}) <= 1


(* -------------------------------- pets -------------------------------- *)
\* no Pet row yet
NoPet == [owners |-> <<>>, creator |-> None, birthday |-> NoDate]

\* the birthdays posted with pet_add and pet_edit
Birthdays == {<<2020, 5, 10>>, <<2020, 2, 29>>}

\* title and note of the entries of create_or_update_birthday_event, in Latin
\* letters
BirthdayTitle == "Den rozhdeniya"
BirthdayNote == "Den rozhdeniya <name>"

\* pet.owners.first(): the queryset has no order_by, so the owner with the
\* lowest primary key comes first
first(owners) ==
    CHOOSE u \in {owners[i] : i \in 1..Len(owners)} :
        \A j \in 1..Len(owners) : u <= owners[j]

\* is_pet_creator
is_pet_creator(user, pet) == pet.owners # <<>> /\ first(pet.owners) = user

\* pet_birthday.replace(year=year) with the except branch for Feb 29
birthday_in_year(pet_birthday, year) ==
    IF PyDate(year, pet_birthday[2], pet_birthday[3]) # ValueError
    THEN PyDate(year, pet_birthday[2], pet_birthday[3])
    ELSE IF pet_birthday[2] = 2 /\ pet_birthday[3] = 29 THEN PyDate(year, 2, 28)
    ELSE ValueError

\* the loop of create_or_update_birthday_event over years; the reminder is
\* made for current_year only
RECURSIVE birthday_loop(_, _, _, _, _)
birthday_loop(db, pet, pet_birthday, years, current_year) ==
    IF years = <<>> THEN db
    ELSE
      LET year == Head(years)
          event == NewEvent(db.nextId, pet, BirthdayTitle, "birthday",
                            birthday_in_year(pet_birthday, year), BirthdayNote,
                            TRUE, None)
          rems == IF year = current_year
                  THEN db.reminders \cup
                       {[DefaultReminder(event) EXCEPT !.repeat = TRUE,
                                                       !.repeat_every = 365,
                                                       !.remind_at = 9]}
                  ELSE db.reminders
      IN  birthday_loop([events |-> db.events \cup {event}, reminders |-> rems,
                         nextId |-> db.nextId + 1],
                        pet, pet_birthday, Tail(years), current_year)

\* Event.objects.filter(pet=pet, event_type='birthday', is_yearly=True).delete()
delete_birthday_events(db, pet) ==
    LET d == DeleteRows(db.events, db.reminders,
                        {e.id : e \in {x \in db.events :
                                          /\ x.pet = pet
                                          /\ x.event_type = "birthday"
                                          /\ x.is_yearly}})
    IN  [events |-> d.events, reminders |-> d.reminders, nextId |-> db.nextId]

\* create_or_update_birthday_event
create_or_update_birthday_event(db, pet, pet_birthday, current_year) ==
    IF pet_birthday = NoDate THEN db
    ELSE birthday_loop(delete_birthday_events(db, pet), pet, pet_birthday,
                       <<current_year, current_year + 1, current_year + 2>>,
                       current_year)

InitPets ==
    /\ events = {}
    /\ reminders = {}
    /\ nextId = 1
    /\ now = FirstNow
    /\ steps = 0
    /\ last = [op |-> "none", pet |-> None, user |-> None, owner |-> None,
               result |-> "none"]
    /\ pc = <<"idle", "idle">>
    /\ loaded = <<None, None>>
    /\ ev0 = {}
    /\ pets = [p \in Pets |-> NoPet]

PetRequest(op, pet, user, owner, result) ==
    [op |-> op, pet |-> pet, user |-> user, owner |-> owner, result |-> result]

\* POST pet_add
PetAdd ==
    \E user \in Users, p \in Pets, birthday \in Birthdays :
        /\ pets[p] = NoPet
        /\ steps < MaxSteps
        /\ pets' = [pets EXCEPT ![p] = [owners |-> <<user>>, creator |-> user,
                                        birthday |-> birthday]]
        /\ LET out == create_or_update_birthday_event(Db, p, birthday, now)
           IN  /\ events' = out.events
               /\ reminders' = out.reminders
               /\ nextId' = out.nextId
        /\ steps' = steps + 1
        /\ last' = PetRequest("pet_add", p, user, None, "added")
        /\ UNCHANGED <<now, pc, loaded, ev0>>

\* POST pet_edit
PetEdit ==
    \E user \in Users, p \in Pets, birthday \in Birthdays :
        /\ pets[p] # NoPet
        /\ steps < MaxSteps
        /\ steps' = steps + 1
        /\ IF is_pet_creator(user, pets[p])
           THEN LET out == create_or_update_birthday_event(
                               delete_birthday_events(Db, p), p, birthday, now)
                IN  /\ pets' = [pets EXCEPT ![p].birthday = birthday]
                    /\ events' = out.events
                    /\ reminders' = out.reminders
                    /\ nextId' = out.nextId
                    /\ last' = PetRequest("pet_edit", p, user, None, "updated")
           ELSE /\ UNCHANGED <<pets, events, reminders, nextId>>
                /\ last' = PetRequest("pet_edit", p, user, None, "forbidden")
        /\ UNCHANGED <<now, pc, loaded, ev0>>

\* POST add_event by an owner: a single entry that carries the birthday title
AddNamedEvent ==
    \E user \in Users, p \in Pets :
        LET out == add_event(Db, p, Form(BirthdayTitle, "other", <<now, 2, 28>>,
                                         "n1", FALSE), NoReminder, now)
        IN  /\ pets[p] # NoPet
            /\ check_pet_owner(user, pets[p])
            /\ steps < MaxSteps
            /\ events' = out.events
            /\ reminders' = out.reminders
            /\ nextId' = out.nextId
            /\ steps' = steps + 1
            /\ last' = PetRequest("add", p, user, None, out.result)
            /\ UNCHANGED <<now, pc, loaded, ev0, pets>>

\* pet.owners.add(user) for a further owner
AddOwner ==
    \E user \in Users, p \in Pets :
        /\ pets[p] # NoPet
        /\ ~check_pet_owner(user, pets[p])
        /\ steps < MaxSteps
        /\ steps' = steps + 1
        /\ pets' = [pets EXCEPT ![p].owners = Append(@, user)]
        /\ last' = PetRequest("add_owner", p, None, user, "added")
        /\ UNCHANGED <<events, reminders, nextId, now, pc, loaded, ev0>>

\* owners.remove(owner)
remove(owners, owner) == SelectSeq(owners, LAMBDA u : u # owner)

\* remove_owner requested by user
RemoveOwner ==
    \E user \in Users, p \in Pets, owner \in Users :
        LET pet == pets[p]
            result == IF ~is_pet_creator(user, pet) THEN "forbidden"
                      ELSE IF Len(pet.owners) <= 1 THEN "last_owner"
                      ELSE IF is_pet_creator(owner, pet) THEN "creator"
                      ELSE "removed"
        IN  /\ pet # NoPet
            /\ steps < MaxSteps
            /\ steps' = steps + 1
            /\ pets' = IF result = "removed"
                       THEN [pets EXCEPT ![p].owners = remove(@, owner)]
                       ELSE pets
            /\ last' = PetRequest("remove_owner", p, user, owner, result)
            /\ UNCHANGED <<events, reminders, nextId, now, pc, loaded, ev0>>

NextPets ==
    \/ PetAdd
    \/ PetEdit
    \/ AddNamedEvent
    \/ AddOwner
    \/ RemoveOwner
    \/ NewYear

SpecPets == InitPets /\ [][NextPets]_vars

\* the yearly birthday entries of a pet
BirthdayEntries(evs, pet) ==
    {e \in evs : e.pet = pet /\ e.event_type = "birthday" /\ e.is_yearly}

(* C29: after create_or_update_birthday_event has run for a pet with a
   birthday (pet creation, pet edit) the pet has exactly three yearly birthday
   entries, on the birthday's month and day (Feb 28 for Feb 29 off leap years)
   in the current and the two following years, only the current-year entry
   has a reminder config, and no other entry of the pet shares a
   (title, date) with them. *)
BirthdayEntriesAfterRun ==
    [][ (Step("pet_add") \/ (Step("pet_edit") /\ last'.result = "updated"))
        => LET p == last'.pet
               bd == BirthdayEntries(events', p)
           IN  /\ Cardinality(bd) = 3
               /\ {e.date : e \in bd}
                  = {SafeOf([date |-> pets'[p].birthday], y) : y \in now..(now + 2)}
               /\ \A e \in bd : (ReminderOf(reminders', e.id) # {}) <=> (e.date[1] = now)
               /\ \A e \in bd, f \in events' :
                      (f.pet = p /\ f.title = e.title /\ f.date = e.date) => f = e ]_vars

(* C30: after any sequence of remove_owner requests a pet that had an owner
   still has one and its creator, the first owner added, is still among the
   owners; a request by a user who is not the creator removes nobody. *)
CreatorStaysOwner ==
    [][ Step("remove_owner")
        => LET before == pets[last'.pet]
               after == pets'[last'.pet]
           IN  /\ after.owners # <<>>
               /\ check_pet_owner(before.creator, before)
                  => check_pet_owner(before.creator, after)
               /\ last'.user # before.creator => after.owners = before.owners ]_vars

====
